---- MODULE Spec2Model ----
(***************************************************************************)
(* Twitch clip bot.  Two programs of the repository are modelled:          *)
(*   - src/unnamed/part_000, the multi-clip variant: pollAll delivers      *)
(*     every clip newer than a subscription's watermark and is driven by   *)
(*     the ready handler and the self-rescheduling startPolling            *)
(*     (specification Spec);                                               *)
(*   - src/index.js, the single-latest-clip variant, whose pollAll is      *)
(*     started by setInterval (specification SpecIx).                      *)
(* Times are whole seconds since the epoch (0); a clip is named by its id   *)
(* and its created_at is ClipTime[id].                                     *)
(***************************************************************************)
EXTENDS Integers, Sequences, FiniteSets, TLC

\* ------------------------------------------------------------------ bounds
MaxCycles == 3      \* pollAll executions started in one run
MaxList == 3        \* clips in one clip-listing response
MaxRuns == 3        \* pollAll executions started in one run of index.js
MaxTokens == 2      \* bearer tokens the token endpoint issues to index.js

\* ------------------------------------------------------------- the world
\* the clips that exist upstream and the created_at they may have: either
\* clips 2 and 3 share one created_at, or all three differ
ClipIds == 1..3
ClipTimes == {<<1, 2, 2>>, <<1, 2, 3>>}

\* rows of the Subscriptions table and their `active` column
active == <<TRUE, TRUE, FALSE>>
SubIds == DOMAIN active

\* a DATE / STRING column that was never set
NULL == -1

VARIABLES
  ClipTime,     \* created_at of every upstream clip (fixed for a run)
  \* ---- src/unnamed/part_000
  sched,        \* position of the ready handler / startPolling chain
  cycle,        \* pollAll executions started so far
  accessToken,  \* module-level accessToken ('' or a bearer token)
  db,           \* Subscriptions rows: last_clip_id, last_clip_created_at
  clipRows,     \* Clips table: number of rows per clip_id
  pc,           \* position inside pollAll
  subs,         \* result of Subscription.findAll (row ids)
  mem,          \* the in-memory instances of those rows
  i,            \* index of the for-of over subs
  lastDate,     \* pollAll's lastDate of the current subscription
  retry,        \* fetchWithAuthRetry's retry parameter
  call,         \* which upstream call is inside fetchWithAuthRetry
  clipData,     \* clipData.data of the last clip listing
  clips,        \* the batch getLatestClips returned
  j,            \* index of the for-of over clips
  userId,       \* getLatestClips' userId (0: not yet assigned)
  err,          \* what the catch of pollAll caught in this cycle
  \* ---- history of the run (observed, never read by the program)
  reqs,         \* statuses the requests of the last fetchWithAuthRetry call
                \* got, in order (0: the fetch itself rejected)
  refreshes,    \* getAccessToken calls made by that call
  wmStart,      \* the rows as findAll read them in this cycle
  sentNow,      \* clips passed to sendClipToDiscord in this cycle, per row
  sent,         \* clips passed to sendClipToDiscord in earlier cycles, per row
  failedAt,     \* index in the current batch of the first clip whose
                \* push to Discord failed (0: none failed)
  timers,       \* timeouts of startPolling that have fired
  \* ---- src/index.js
  ixSched,      \* position of the ready handler / setInterval
  ixStarted,    \* pollAll executions started so far
  ixToken,      \* module-level accessToken
  ixIssued,     \* bearer tokens issued so far
  ixExpired,    \* issued tokens the upstream no longer accepts
  ixDb,         \* the Subscriptions row
  ixRun         \* the pollAll executions in progress, per slot

p0Vars == <<sched, cycle, accessToken, db, clipRows, pc, subs, mem, i, lastDate,
            retry, call, clipData, clips, j, userId, err, reqs, refreshes,
            wmStart, sentNow, sent, failedAt, timers>>

ixVars == <<ixSched, ixStarted, ixToken, ixIssued, ixExpired, ixDb, ixRun>>

vars == <<ClipTime, ixVars, sched, cycle, accessToken, db, clipRows, pc, subs, mem, i, lastDate,
          retry, call, clipData, clips, j, userId, err, reqs, refreshes,
          wmStart, sentNow, sent, failedAt, timers>>

\* -------------------------------------------------------- pure functions
created_at(c) == ClipTime[c]

\* sub.last_clip_created_at || new Date(0)
LastDateOf(row) == IF row.last_clip_created_at = NULL THEN 0 ELSE row.last_clip_created_at

\* the filter with an inclusive comparison
IsNew_inclusive(c, sinceDate) == created_at(c) >= sinceDate

\* .filter(clip => new Date(clip.created_at) > new Date(sinceDate))
IsNew(c, sinceDate) == created_at(c) > sinceDate

\* getLatestClips without its filter
filterNew_none(data, sinceDate) == data

filterNew(data, sinceDate) == SelectSeq(data, LAMBDA c : IsNew(c, sinceDate))

\* Array.prototype.sort with (a, b) => a.created_at - b.created_at is stable:
\* insert each element behind the elements that are not greater.
RECURSIVE InsertSorted(_, _)
InsertSorted(s, c) ==
  IF s = <<>> THEN <<c>>
  ELSE IF created_at(s[Len(s)]) <= created_at(c) THEN Append(s, c)
  ELSE Append(InsertSorted(SubSeq(s, 1, Len(s) - 1), c), s[Len(s)])

\* getLatestClips without its sort
sortAscending_none(s) == s

RECURSIVE sortAscending(_)
sortAscending(s) ==
  IF s = <<>> THEN <<>>
  ELSE InsertSorted(sortAscending(SubSeq(s, 1, Len(s) - 1)), s[Len(s)])

\* the value getLatestClips returns for a clip listing with a data array
getLatestClips(data, sinceDate) ==
  IF Len(data) = 0 THEN <<>> ELSE sortAscending(filterNew(data, sinceDate))

\* ------------------------------------------------------- upstream answers
RECURSIVE ListsOfLen(_)
ListsOfLen(n) ==
  IF n = 0 THEN {<<>>}
  ELSE {Append(s, c) : s \in ListsOfLen(n - 1), c \in ClipIds}

NoRepeat(s) == \A a, b \in DOMAIN s : a # b => s[a] # s[b]

\* clip listings: up to MaxList different clips, in any order
ClipLists == {s \in UNION {ListsOfLen(n) : n \in 0..MaxList} : NoRepeat(s)}

\* a parsed response: a 200 carries a data array (users: <<>> or one user,
\* clips: a clip list); an error status carries a JSON object without `data`
\* ("nodata") or a body that res.json() cannot parse ("nonjson")
Responses(datas) ==
  [status : {200}, kind : {"data"}, data : datas]
    \cup [status : {401, 500}, kind : {"nodata", "nonjson"}, data : {<<>>}]

UserDatas == {<<>>, <<1>>}

\* ------------------------------------------------------------------- Init
EmptyRow == [last_clip_id |-> NULL, last_clip_created_at |-> NULL]

InitPart000 ==
  /\ sched = "boot"
  /\ cycle = 0
  /\ accessToken = ""
  /\ db = [s \in SubIds |-> EmptyRow]
  /\ clipRows = [c \in ClipIds |-> 0]
  /\ pc = "idle"
  /\ subs = <<>>
  /\ mem = [s \in SubIds |-> EmptyRow]
  /\ i = 0
  /\ lastDate = 0
  /\ retry = TRUE
  /\ call = "user"
  /\ clipData = <<>>
  /\ clips = <<>>
  /\ j = 0
  /\ err = "none"
  /\ reqs = <<>>
  /\ refreshes = 0
  /\ wmStart = [s \in SubIds |-> EmptyRow]
  /\ sentNow = [s \in SubIds |-> <<>>]
  /\ sent = [s \in SubIds |-> {}]
  /\ userId = 0
  /\ failedAt = 0
  /\ timers = 0

RowOf(c) == [last_clip_id |-> c, last_clip_created_at |-> created_at(c)]

IdleRun == [pc |-> "idle", row |-> EmptyRow, i |-> 0, call |-> "user",
            retry |-> TRUE, clip |-> 0, rejected |-> 0]

Slots == 1..2

InitIx ==
  /\ ixSched = "boot"
  /\ ixStarted = 0
  /\ ixToken = 0
  /\ ixIssued = 0
  /\ ixExpired = {}
  /\ ixDb = EmptyRow
  /\ ixRun = [p \in Slots |-> IdleRun]

Init ==
  /\ ClipTime \in ClipTimes
  /\ InitPart000
  /\ InitIx

\* ------------------------------------------------ pollAll of part_000
\* a call of pollAll: the try block is entered
EnterPollAll ==
  /\ pc' = "findAll"
  /\ cycle' = cycle + 1
  /\ err' = "none"
  /\ subs' = <<>>
  /\ mem' = db
  /\ i' = 0
  /\ lastDate' = 0
  /\ retry' = TRUE
  /\ call' = "user"
  /\ clipData' = <<>>
  /\ clips' = <<>>
  /\ j' = 0
  /\ reqs' = <<>>
  /\ refreshes' = 0
  /\ wmStart' = db
  /\ sentNow' = [s \in SubIds |-> <<>>]
  /\ sent' = [s \in SubIds |-> sent[s] \cup {sentNow[s][k] : k \in DOMAIN sentNow[s]}]
  /\ userId' = 0
  /\ failedAt' = 0

\* an exception inside the try block: caught at the catch, pollAll returns
Raise(what) ==
  /\ pc' = "done"
  /\ err' = what

sub == subs[i]

\* const subs = await Subscription.findAll({ where: { active: true } })
FindAll ==
  /\ pc = "findAll"
  /\ \E ok \in BOOLEAN :
       IF ok
       THEN /\ subs' = SelectSeq([s \in SubIds |-> s], LAMBDA s : active[s])
            /\ mem' = db
            /\ i' = 0
            /\ pc' = "loop"
            /\ err' = err
       ELSE /\ Raise("findAll")
            /\ UNCHANGED <<subs, mem, i>>
  /\ UNCHANGED <<sched, cycle, accessToken, db, clipRows, lastDate, retry, call,
                 clipData, clips, j, reqs, refreshes, wmStart, sentNow, sent>>
  /\ UNCHANGED <<userId, failedAt, timers>>
  /\ UNCHANGED <<ClipTime, ixVars>>

\* for (const sub of subs): the next subscription; getLatestClips starts
\* its user lookup
NextSub ==
  /\ pc = "loop"
  /\ i < Len(subs)
  /\ i' = i + 1
  /\ lastDate' = LastDateOf(mem[subs[i + 1]])
  /\ pc' = "fetch"
  /\ call' = "user"
  /\ retry' = TRUE
  /\ clipData' = <<>>
  /\ clips' = <<>>
  /\ j' = 0
  /\ UNCHANGED <<sched, cycle, accessToken, db, clipRows, subs, mem, err, reqs,
                 refreshes, wmStart, sentNow, sent>>
  /\ userId' = 0
  /\ failedAt' = 0
  /\ UNCHANGED timers
  /\ UNCHANGED <<ClipTime, ixVars>>

\* the for-of is exhausted: pollAll returns
LoopEnd ==
  /\ pc = "loop"
  /\ i >= Len(subs)
  /\ pc' = "done"
  /\ UNCHANGED <<sched, cycle, accessToken, db, clipRows, subs, mem, i, lastDate,
                 retry, call, clipData, clips, j, err, reqs, refreshes, wmStart,
                 sentNow, sent>>
  /\ UNCHANGED <<userId, failedAt, timers>>
  /\ UNCHANGED <<ClipTime, ixVars>>

\* a request of fetchWithAuthRetry got this status (0: fetch rejected); the
\* request made with retry = true is the first one of a call
Requested(status) ==
  /\ reqs' = IF retry THEN <<status>> ELSE Append(reqs, status)
  /\ refreshes' = IF retry THEN 0 ELSE refreshes

\* fetchWithAuthRetry: await fetch(...) rejects (network failure)
FetchThrows ==
  /\ pc = "fetch"
  /\ Requested(0)
  /\ Raise("network")
  /\ UNCHANGED <<sched, cycle, accessToken, db, clipRows, subs, mem, i, lastDate,
                 retry, call, clipData, clips, j, wmStart, sentNow, sent>>
  /\ UNCHANGED <<userId, failedAt, timers>>
  /\ UNCHANGED <<ClipTime, ixVars>>

\* fetchWithAuthRetry refreshing on every 401, the retry flag forgotten
Fetch401_always ==
  /\ pc = "fetch"
  /\ Requested(401)
  /\ pc' = "refresh"
  /\ UNCHANGED <<sched, cycle, accessToken, db, clipRows, subs, mem, i, lastDate,
                 retry, call, clipData, clips, j, err, wmStart, sentNow, sent>>
  /\ UNCHANGED <<userId, failedAt, timers>>
  /\ UNCHANGED <<ClipTime, ixVars>>

\* fetchWithAuthRetry: res.status === 401 && retry
Fetch401 ==
  /\ pc = "fetch"
  /\ retry
  /\ Requested(401)
  /\ pc' = "refresh"
  /\ UNCHANGED <<sched, cycle, accessToken, db, clipRows, subs, mem, i, lastDate,
                 retry, call, clipData, clips, j, err, wmStart, sentNow, sent>>
  /\ UNCHANGED <<userId, failedAt, timers>>
  /\ UNCHANGED <<ClipTime, ixVars>>

\* getAccessToken: the token request; accessToken is assigned on success
getAccessToken(ok) == accessToken' = IF ok THEN "tok" ELSE accessToken

\* await getAccessToken(); return fetchWithAuthRetry(url, options, false)
Refresh ==
  /\ pc = "refresh"
  /\ refreshes' = refreshes + 1
  /\ \E ok \in BOOLEAN :
       /\ getAccessToken(ok)
       /\ IF ok
          THEN /\ retry' = FALSE
               /\ pc' = "fetch"
               /\ err' = err
          ELSE /\ Raise("refresh")
               /\ retry' = retry
  /\ UNCHANGED <<sched, cycle, db, clipRows, subs, mem, i, lastDate, call,
                 clipData, clips, j, reqs, wmStart, sentNow, sent>>
  /\ UNCHANGED <<userId, failedAt, timers>>
  /\ UNCHANGED <<ClipTime, ixVars>>

\* fetchWithAuthRetry returns res unless it is a 401 that is still retried
Returned(res) == ~(res.status = 401 /\ retry)

\* getLatestClips reading userData.data[0].id without the optional chain
UserLookup_noOptionalChain ==
  /\ pc = "fetch"
  /\ call = "user"
  /\ \E res \in Responses(UserDatas) :
       /\ Returned(res)
       /\ Requested(res.status)
       /\ CASE res.kind = "nonjson" ->
                 \* userRes.json() rejects
                 /\ Raise("parse")
                 /\ UNCHANGED <<call, retry, clips, userId>>
            [] res.kind = "nodata" ->
                 \* userData.data is undefined: data[0] is a TypeError
                 /\ Raise("type")
                 /\ UNCHANGED <<call, retry, clips, userId>>
            [] res.kind = "data" /\ res.data = <<>> ->
                 \* userData.data[0].id: data[0] is undefined, a TypeError
                 /\ userId' = NULL
                 /\ Raise("type")
                 /\ UNCHANGED <<call, retry, clips>>
            [] res.kind = "data" /\ res.data # <<>> ->
                 \* the clip listing is requested
                 /\ userId' = res.data[1]
                 /\ call' = "clips"
                 /\ retry' = TRUE
                 /\ pc' = "fetch"
                 /\ UNCHANGED <<clips, err>>
  /\ UNCHANGED <<sched, cycle, accessToken, db, clipRows, subs, mem, i, lastDate,
                 clipData, j, wmStart, sentNow, sent>>
  /\ UNCHANGED <<failedAt, timers>>
  /\ UNCHANGED <<ClipTime, ixVars>>

\* getLatestClips, user lookup: userRes.json(), userData.data[0]?.id
UserLookup ==
  /\ pc = "fetch"
  /\ call = "user"
  /\ \E res \in Responses(UserDatas) :
       /\ Returned(res)
       /\ Requested(res.status)
       /\ CASE res.kind = "nonjson" ->
                 \* userRes.json() rejects
                 /\ Raise("parse")
                 /\ UNCHANGED <<call, retry, clips, userId>>
            [] res.kind = "nodata" ->
                 \* userData.data is undefined: data[0] is a TypeError
                 /\ Raise("type")
                 /\ UNCHANGED <<call, retry, clips, userId>>
            [] res.kind = "data" /\ res.data = <<>> ->
                 \* userId = userData.data[0]?.id is undefined;
                 \* if (!userId) return [], and clips.length > 0 is false
                 /\ userId' = NULL
                 /\ clips' = <<>>
                 /\ pc' = "loop"
                 /\ UNCHANGED <<call, retry, err>>
            [] res.kind = "data" /\ res.data # <<>> ->
                 \* the clip listing is requested
                 /\ userId' = res.data[1]
                 /\ call' = "clips"
                 /\ retry' = TRUE
                 /\ pc' = "fetch"
                 /\ UNCHANGED <<clips, err>>
  /\ UNCHANGED <<sched, cycle, accessToken, db, clipRows, subs, mem, i, lastDate,
                 clipData, j, wmStart, sentNow, sent>>
  /\ UNCHANGED <<failedAt, timers>>
  /\ UNCHANGED <<ClipTime, ixVars>>

\* getLatestClips, clip listing: clipRes.json(), the filter and the sort;
\* pollAll then enters the for-of over clips when the batch is not empty
ClipListing ==
  /\ pc = "fetch"
  /\ call = "clips"
  /\ \E res \in Responses(ClipLists) :
       /\ Returned(res)
       /\ Requested(res.status)
       /\ CASE res.kind = "nonjson" ->
                 /\ Raise("parse")
                 /\ UNCHANGED <<clipData, clips, j>>
            [] res.kind = "nodata" ->
                 \* if (!clipData.data || ...) return []
                 /\ clipData' = <<>>
                 /\ clips' = <<>>
                 /\ pc' = "loop"
                 /\ UNCHANGED <<j, err>>
            [] res.kind = "data" ->
                 /\ clipData' = res.data
                 /\ clips' = getLatestClips(res.data, lastDate)
                 /\ IF clips' # <<>>
                    THEN pc' = "send" /\ j' = 1
                    ELSE pc' = "loop" /\ j' = j
                 /\ err' = err
  /\ UNCHANGED <<sched, cycle, accessToken, db, clipRows, subs, mem, i, lastDate,
                 retry, call, wmStart, sentNow, sent>>
  /\ UNCHANGED <<userId, failedAt, timers>>
  /\ UNCHANGED <<ClipTime, ixVars>>

clip == clips[j]

\* sendClipToDiscord without its try/catch: a failing push is an exception
\* inside pollAll's try block
SendClip_throws ==
  /\ pc = "send"
  /\ sentNow' = [sentNow EXCEPT ![sub] = Append(@, clip)]
  /\ \E ok \in BOOLEAN :
       /\ failedAt' = IF ~ok /\ failedAt = 0 THEN j ELSE failedAt
       /\ IF ok THEN pc' = "findOrCreate" /\ err' = err ELSE Raise("push")
  /\ UNCHANGED <<sched, cycle, accessToken, db, clipRows, subs, mem, i, lastDate,
                 retry, call, clipData, clips, j, reqs, refreshes, wmStart,
                 sent>>
  /\ UNCHANGED <<userId, timers>>
  /\ UNCHANGED <<ClipTime, ixVars>>

\* await sendClipToDiscord(clip, sub.discord_channel_id): a failing channel
\* fetch or send is caught inside and only logged
SendClip ==
  /\ pc = "send"
  /\ sentNow' = [sentNow EXCEPT ![sub] = Append(@, clip)]
  /\ \E ok \in BOOLEAN :
       failedAt' = IF ~ok /\ failedAt = 0 THEN j ELSE failedAt
  /\ pc' = "findOrCreate"
  /\ UNCHANGED <<sched, cycle, accessToken, db, clipRows, subs, mem, i, lastDate,
                 retry, call, clipData, clips, j, err, reqs, refreshes, wmStart,
                 sent>>
  /\ UNCHANGED <<userId, timers>>
  /\ UNCHANGED <<ClipTime, ixVars>>

\* the clip recorded with an insert that does not look for the row first
FindOrCreate_create ==
  /\ pc = "findOrCreate"
  /\ \E ok \in BOOLEAN :
       IF ok
       THEN /\ clipRows' = [clipRows EXCEPT ![clip] = @ + 1]
            /\ IF j < Len(clips)
               THEN j' = j + 1 /\ pc' = "send"
               ELSE j' = j /\ pc' = "save"
            /\ err' = err
       ELSE /\ Raise("findOrCreate")
            /\ UNCHANGED <<clipRows, j>>
  /\ UNCHANGED <<sched, cycle, accessToken, db, subs, mem, i, lastDate, retry,
                 call, clipData, clips, reqs, refreshes, wmStart, sentNow, sent>>
  /\ UNCHANGED <<userId, failedAt, timers>>
  /\ UNCHANGED <<ClipTime, ixVars>>

\* the watermark assigned and saved inside the for-of over the batch, after
\* its first clip
FindOrCreate_saveInLoop ==
  /\ pc = "findOrCreate"
  /\ \E ok \in BOOLEAN :
       IF ok
       THEN /\ clipRows' = [clipRows EXCEPT ![clip] = IF @ = 0 THEN 1 ELSE @]
            /\ j' = j
            /\ pc' = "save"
            /\ err' = err
       ELSE /\ Raise("findOrCreate")
            /\ UNCHANGED <<clipRows, j>>
  /\ UNCHANGED <<sched, cycle, accessToken, db, subs, mem, i, lastDate, retry,
                 call, clipData, clips, reqs, refreshes, wmStart, sentNow, sent>>
  /\ UNCHANGED <<userId, failedAt, timers>>
  /\ UNCHANGED <<ClipTime, ixVars>>

\* await Clip.findOrCreate({ where: { clip_id: clip.id }, ... }), then the
\* next clip of the batch or, behind the loop, the watermark
FindOrCreate ==
  /\ pc = "findOrCreate"
  /\ \E ok \in BOOLEAN :
       IF ok
       THEN /\ clipRows' = [clipRows EXCEPT ![clip] = IF @ = 0 THEN 1 ELSE @]
            /\ IF j < Len(clips)
               THEN j' = j + 1 /\ pc' = "send"
               ELSE j' = j /\ pc' = "save"
            /\ err' = err
       ELSE /\ Raise("findOrCreate")
            /\ UNCHANGED <<clipRows, j>>
  /\ UNCHANGED <<sched, cycle, accessToken, db, subs, mem, i, lastDate, retry,
                 call, clipData, clips, reqs, refreshes, wmStart, sentNow, sent>>
  /\ UNCHANGED <<userId, failedAt, timers>>
  /\ UNCHANGED <<ClipTime, ixVars>>

\* the first clip of the batch taken for the newest one
newestClip_first(batch) == batch[1]

\* const newestClip = clips[clips.length - 1]
newestClip(batch) == batch[Len(batch)]

\* the watermark written with an update that has no where clause
Save_everyRow ==
  /\ pc = "save"
  /\ mem' = [mem EXCEPT ![sub] =
               [last_clip_id |-> newestClip(clips),
                last_clip_created_at |-> created_at(newestClip(clips))]]
  /\ \E ok \in BOOLEAN :
       IF ok
       THEN /\ db' = [s \in SubIds |-> mem'[sub]]
            /\ pc' = "loop"
            /\ err' = err
       ELSE /\ Raise("save")
            /\ db' = db
  /\ UNCHANGED <<sched, cycle, accessToken, clipRows, subs, i, lastDate, retry,
                 call, clipData, clips, j, reqs, refreshes, wmStart, sentNow, sent>>
  /\ UNCHANGED <<userId, failedAt, timers>>
  /\ UNCHANGED <<ClipTime, ixVars>>

\* sub.last_clip_created_at = ...; sub.last_clip_id = ...; await sub.save()
Save ==
  /\ pc = "save"
  /\ mem' = [mem EXCEPT ![sub] =
               [last_clip_id |-> newestClip(clips),
                last_clip_created_at |-> created_at(newestClip(clips))]]
  /\ \E ok \in BOOLEAN :
       IF ok
       THEN /\ db' = [db EXCEPT ![sub] = mem'[sub]]
            /\ pc' = "loop"
            /\ err' = err
       ELSE /\ Raise("save")
            /\ db' = db
  /\ UNCHANGED <<sched, cycle, accessToken, clipRows, subs, i, lastDate, retry,
                 call, clipData, clips, j, reqs, refreshes, wmStart, sentNow, sent>>
  /\ UNCHANGED <<userId, failedAt, timers>>
  /\ UNCHANGED <<ClipTime, ixVars>>

\* ------------------------------------- ready handler and startPolling
pollVars == <<subs, mem, i, lastDate, retry, call, clipData, clips, j, userId,
              reqs, refreshes, sent, failedAt>>

\* discordClient.once('ready', ...): the handler starts
Ready ==
  /\ sched = "boot"
  /\ sched' = "sync"
  /\ UNCHANGED <<cycle, accessToken, db, clipRows, pc, err, wmStart, sentNow>>
  /\ UNCHANGED pollVars
  /\ UNCHANGED timers
  /\ UNCHANGED <<ClipTime, ixVars>>

\* await sequelize.sync(): a rejection ends the handler
Sync ==
  /\ sched = "sync"
  /\ \E ok \in BOOLEAN : sched' = IF ok THEN "token" ELSE "stopped"
  /\ UNCHANGED <<cycle, accessToken, db, clipRows, pc, err, wmStart, sentNow>>
  /\ UNCHANGED pollVars
  /\ UNCHANGED timers
  /\ UNCHANGED <<ClipTime, ixVars>>

\* await getAccessToken(); await pollAll(): a rejection of getAccessToken
\* ends the handler before any poll
ReadyToken ==
  /\ sched = "token"
  /\ \E ok \in BOOLEAN :
       /\ getAccessToken(ok)
       /\ IF ok
          THEN /\ sched' = "ready"
               /\ EnterPollAll
          ELSE /\ sched' = "stopped"
               /\ UNCHANGED <<cycle, pc, err, wmStart, sentNow>>
               /\ UNCHANGED pollVars
  /\ UNCHANGED <<db, clipRows>>
  /\ UNCHANGED timers
  /\ UNCHANGED <<ClipTime, ixVars>>

\* the ready handler's pollAll returned: startPolling() is called and
\* awaits its own pollAll at once
ReadyStartPolling ==
  /\ sched = "ready"
  /\ pc = "done"
  /\ cycle < MaxCycles
  /\ sched' = "startPolling"
  /\ EnterPollAll
  /\ UNCHANGED <<accessToken, db, clipRows>>
  /\ UNCHANGED timers
  /\ UNCHANGED <<ClipTime, ixVars>>

\* startPolling: its pollAll returned (the frame of pollAll is gone);
\* setTimeout(startPolling, 5 min)
SetTimeout ==
  /\ sched = "startPolling"
  /\ pc = "done"
  /\ sched' = "timer"
  /\ pc' = "idle"
  /\ subs' = <<>>
  /\ mem' = db
  /\ i' = 0
  /\ lastDate' = 0
  /\ retry' = TRUE
  /\ call' = "user"
  /\ clipData' = <<>>
  /\ clips' = <<>>
  /\ j' = 0
  /\ reqs' = <<>>
  /\ refreshes' = 0
  /\ UNCHANGED <<cycle, accessToken, db, clipRows, err, wmStart, sentNow, sent>>
  /\ userId' = 0
  /\ failedAt' = 0
  /\ UNCHANGED timers
  /\ UNCHANGED <<ClipTime, ixVars>>

\* the timer fires: startPolling runs again
TimerFires ==
  /\ sched = "timer"
  /\ cycle < MaxCycles
  /\ sched' = "startPolling"
  /\ EnterPollAll
  /\ UNCHANGED <<accessToken, db, clipRows>>
  /\ timers' = timers + 1
  /\ UNCHANGED <<ClipTime, ixVars>>

Next ==
  \/ Ready \/ Sync \/ ReadyToken \/ ReadyStartPolling \/ SetTimeout \/ TimerFires
  \/ FindAll \/ NextSub \/ LoopEnd
  \/ FetchThrows \/ Fetch401 \/ Refresh \/ UserLookup \/ ClipListing
  \/ SendClip \/ FindOrCreate \/ Save

Spec == Init /\ [][Next]_vars

\* ======================================================= src/index.js
\* Every pollAll execution runs in a slot; a slot is free again when its
\* execution has returned.  The upstream answers 401 exactly to a request
\* whose bearer token is not a valid one.
Running(p) == ixRun[p].pc # "idle"

Valid(tok) == tok >= 1 /\ tok \notin ixExpired

\* an execution of pollAll starts in slot p
IxEnterPollAll(p) ==
  /\ ixRun' = [ixRun EXCEPT ![p] = [IdleRun EXCEPT !.pc = "findAll"]]
  /\ ixStarted' = ixStarted + 1

\* the execution in slot p returns (normally or through its catch)
IxReturn(p) == ixRun' = [ixRun EXCEPT ![p] = IdleRun]

\* getAccessToken of index.js: accessToken = data.access_token, which is
\* undefined (-1) when the token endpoint answers without one
IxTokenOutcomes == {"token", "undefined", "throws"}

ixGetAccessToken(outcome) ==
  /\ outcome = "token" => ixIssued < MaxTokens
  /\ ixIssued' = IF outcome = "token" THEN ixIssued + 1 ELSE ixIssued
  /\ ixToken' = CASE outcome = "token" -> ixIssued + 1
                  [] outcome = "undefined" -> -1
                  [] OTHER -> ixToken

\* the upstream stops accepting the token the bot holds
IxExpire ==
  /\ Valid(ixToken)
  /\ ixExpired' = ixExpired \cup {ixToken}
  /\ UNCHANGED <<ixSched, ixStarted, ixToken, ixIssued, ixDb, ixRun>>
  /\ UNCHANGED <<ClipTime, p0Vars>>

\* discordClient.once('ready', ...): await sequelize.sync()
IxReady ==
  /\ ixSched = "boot"
  /\ \E ok \in BOOLEAN : ixSched' = IF ok THEN "token" ELSE "stopped"
  /\ UNCHANGED <<ixStarted, ixToken, ixIssued, ixExpired, ixDb, ixRun>>
  /\ UNCHANGED <<ClipTime, p0Vars>>

\* await getAccessToken(); await pollAll()
IxReadyToken ==
  /\ ixSched = "token"
  /\ \E outcome \in IxTokenOutcomes :
       /\ ixGetAccessToken(outcome)
       /\ IF outcome = "throws"
          THEN /\ ixSched' = "stopped"
               /\ UNCHANGED <<ixStarted, ixRun>>
          ELSE /\ ixSched' = "firstPoll"
               /\ IxEnterPollAll(1)
  /\ UNCHANGED <<ixExpired, ixDb>>
  /\ UNCHANGED <<ClipTime, p0Vars>>

\* the handler's pollAll returned: setInterval(pollAll, 5 min)
IxSetInterval ==
  /\ ixSched = "firstPoll"
  /\ ~Running(1)
  /\ ixSched' = "interval"
  /\ UNCHANGED <<ixStarted, ixToken, ixIssued, ixExpired, ixDb, ixRun>>
  /\ UNCHANGED <<ClipTime, p0Vars>>

\* the interval elapses: pollAll is called, whatever earlier executions do
IxIntervalFires ==
  /\ ixSched = "interval"
  /\ ixStarted < MaxRuns
  /\ \E p \in Slots :
       /\ ~Running(p)
       /\ \A q \in Slots : q < p => Running(q)
       /\ IxEnterPollAll(p)
  /\ UNCHANGED <<ixSched, ixToken, ixIssued, ixExpired, ixDb>>
  /\ UNCHANGED <<ClipTime, p0Vars>>

\* const subs = await Subscription.findAll(...): the one active row
IxFindAll(p) ==
  /\ ixRun[p].pc = "findAll"
  /\ \E ok \in BOOLEAN :
       IF ok
       THEN ixRun' = [ixRun EXCEPT ![p].pc = "loop", ![p].row = ixDb, ![p].i = 0]
       ELSE IxReturn(p)
  /\ UNCHANGED <<ixSched, ixStarted, ixToken, ixIssued, ixExpired, ixDb>>
  /\ UNCHANGED <<ClipTime, p0Vars>>

\* for (const sub of subs): getLatestClip starts its user lookup, or the
\* loop is exhausted and pollAll returns
IxLoop(p) ==
  /\ ixRun[p].pc = "loop"
  /\ IF ixRun[p].i < 1
     THEN ixRun' = [ixRun EXCEPT ![p].pc = "fetch", ![p].i = 1, ![p].call = "user",
                                 ![p].retry = TRUE, ![p].clip = 0]
     ELSE IxReturn(p)
  /\ UNCHANGED <<ixSched, ixStarted, ixToken, ixIssued, ixExpired, ixDb>>
  /\ UNCHANGED <<ClipTime, p0Vars>>

\* fetchWithAuthRetry: await fetch(...) rejects
IxFetchThrows(p) ==
  /\ ixRun[p].pc = "fetch"
  /\ IxReturn(p)
  /\ UNCHANGED <<ixSched, ixStarted, ixToken, ixIssued, ixExpired, ixDb>>
  /\ UNCHANGED <<ClipTime, p0Vars>>

\* fetchWithAuthRetry: res.status === 401 && retry
IxFetch401(p) ==
  /\ ixRun[p].pc = "fetch"
  /\ ixRun[p].retry
  /\ ~Valid(ixToken)
  /\ ixRun' = [ixRun EXCEPT ![p].pc = "refresh", ![p].rejected = ixToken]
  /\ UNCHANGED <<ixSched, ixStarted, ixToken, ixIssued, ixExpired, ixDb>>
  /\ UNCHANGED <<ClipTime, p0Vars>>

\* await getAccessToken(); return fetchWithAuthRetry(url, options, false)
IxRefresh(p) ==
  /\ ixRun[p].pc = "refresh"
  /\ \E outcome \in IxTokenOutcomes :
       /\ ixGetAccessToken(outcome)
       /\ IF outcome = "throws"
          THEN IxReturn(p)
          ELSE ixRun' = [ixRun EXCEPT ![p].pc = "fetch", ![p].retry = FALSE]
  /\ UNCHANGED <<ixSched, ixStarted, ixExpired, ixDb>>
  /\ UNCHANGED <<ClipTime, p0Vars>>

\* getLatestClip, user lookup.  A 401 that is not retried has no data:
\* userData.data[0] throws.  A 200 names the user or no user.
IxUserLookup(p) ==
  /\ ixRun[p].pc = "fetch"
  /\ ixRun[p].call = "user"
  /\ IF ~Valid(ixToken)
     THEN ~ixRun[p].retry /\ IxReturn(p)
     ELSE \E data \in UserDatas :
            IF data = <<>>
            THEN ixRun' = [ixRun EXCEPT ![p].pc = "loop"]
            ELSE ixRun' = [ixRun EXCEPT ![p].call = "clips", ![p].retry = TRUE]
  /\ UNCHANGED <<ixSched, ixStarted, ixToken, ixIssued, ixExpired, ixDb>>
  /\ UNCHANGED <<ClipTime, p0Vars>>

\* clipData.data.sort((a, b) => b.created_at - a.created_at)[0]: the first
\* listed clip among those with the greatest created_at (the sort is stable)
newest(data) ==
  data[CHOOSE a \in DOMAIN data :
         \A b \in DOMAIN data :
           \/ created_at(data[b]) < created_at(data[a])
           \/ (created_at(data[b]) = created_at(data[a]) /\ a <= b)]

\* the condition of pollAll's if
IsNewClip(c, row) ==
  /\ c # 0
  /\ c # row.last_clip_id
  /\ (row.last_clip_created_at = NULL \/ created_at(c) > row.last_clip_created_at)

\* getLatestClip, clip listing, and the if of pollAll.  A 401 that is not
\* retried has no data: getLatestClip returns null.
IxClipListing(p) ==
  /\ ixRun[p].pc = "fetch"
  /\ ixRun[p].call = "clips"
  /\ IF ~Valid(ixToken)
     THEN ~ixRun[p].retry /\ ixRun' = [ixRun EXCEPT ![p].pc = "loop"]
     ELSE \E data \in ClipLists :
            LET c == IF data = <<>> THEN 0 ELSE newest(data) IN
            ixRun' = [ixRun EXCEPT ![p].clip = c,
                        ![p].pc = IF IsNewClip(c, ixRun[p].row) THEN "send" ELSE "loop"]
  /\ UNCHANGED <<ixSched, ixStarted, ixToken, ixIssued, ixExpired, ixDb>>
  /\ UNCHANGED <<ClipTime, p0Vars>>

\* await sendClipToDiscord(clip, ...); a failing push is only logged
IxSendClip(p) ==
  /\ ixRun[p].pc = "send"
  /\ ixRun' = [ixRun EXCEPT ![p].pc = "save"]
  /\ UNCHANGED <<ixSched, ixStarted, ixToken, ixIssued, ixExpired, ixDb>>
  /\ UNCHANGED <<ClipTime, p0Vars>>

\* sub.last_clip_id = clip.id; sub.last_clip_created_at = ...; sub.save()
IxSave(p) ==
  /\ ixRun[p].pc = "save"
  /\ \E ok \in BOOLEAN :
       IF ok
       THEN /\ ixDb' = RowOf(ixRun[p].clip)
            /\ ixRun' = [ixRun EXCEPT ![p].pc = "loop", ![p].row = RowOf(ixRun[p].clip)]
       ELSE /\ ixDb' = ixDb
            /\ IxReturn(p)
  /\ UNCHANGED <<ixSched, ixStarted, ixToken, ixIssued, ixExpired>>
  /\ UNCHANGED <<ClipTime, p0Vars>>

IxPollAll(p) ==
  \/ IxFindAll(p) \/ IxLoop(p)
  \/ IxFetchThrows(p) \/ IxFetch401(p) \/ IxRefresh(p)
  \/ IxUserLookup(p) \/ IxClipListing(p)
  \/ IxSendClip(p) \/ IxSave(p)

NextIx ==
  \/ IxReady \/ IxReadyToken \/ IxSetInterval \/ IxIntervalFires \/ IxExpire
  \/ \E p \in Slots : IxPollAll(p)

SpecIx == Init /\ [][NextIx]_vars

\* ================================================ properties of index.js
\* C5 (as claimed): the scheduler of index.js never starts a pollAll
\* execution while a previous one is still in progress.
C5_NoOverlappingPollAll ==
  Cardinality({p \in Slots : Running(p)}) <= 1

\* C8 (as claimed): calls that are answered 401 for the same expired
\* credential share one getAccessToken call: no two executions are inside
\* getAccessToken for the same rejected token.
C8_SingleFlightRefresh ==
  \A p, q \in Slots :
    (p # q /\ ixRun[p].pc = "refresh" /\ ixRun[q].pc = "refresh"
       /\ ixRun[p].rejected \in ixExpired)
      => ixRun[p].rejected # ixRun[q].rejected

\* ================================================ properties of part_000
Range(s) == {s[k] : k \in DOMAIN s}

\* the listing held a clip at or before the watermark of the subscription
ListedOldClip == \E k \in DOMAIN clipData : created_at(clipData[k]) <= lastDate

\* the for-of over a batch of the current subscription ended and sub.save()
\* resolved (the only way to be back at the loop head with a batch)
BatchCompleted == pc = "loop" /\ i >= 1 /\ clips # <<>>

\* C1 (as claimed): over any sequence of poll cycles, whatever the upstream
\* calls, the pushes and the store writes do, a clip id is passed to
\* sendClipToDiscord at most once for a subscription.
C1_ClipSentAtMostOnce ==
  \A s \in SubIds :
    /\ NoRepeat(sentNow[s])
    /\ Range(sentNow[s]) \cap sent[s] = {}

\* C2: the persisted last_clip_created_at of every subscription is, during
\* and after a pollAll cycle, greater than or equal to its value before
\* the cycle, whatever list the upstream returns.
C2_WatermarkNeverDecreases ==
  \A s \in SubIds : LastDateOf(db[s]) >= LastDateOf(wmStart[s])

\* a set watermark was advanced in a cycle whose listing held an old clip
C2_Witness ==
  /\ BatchCompleted
  /\ ListedOldClip
  /\ wmStart[sub].last_clip_created_at # NULL
  /\ LastDateOf(db[sub]) > LastDateOf(wmStart[sub])

\* C3: a clip whose created_at is less than or equal to the watermark the
\* cycle read for a subscription (epoch when unset) is never passed to
\* sendClipToDiscord for that subscription in that cycle.
C3_OldClipNeverSent ==
  \A s \in SubIds : \A k \in DOMAIN sentNow[s] :
    created_at(sentNow[s][k]) > LastDateOf(wmStart[s])

\* the upstream listed a clip at the watermark together with a newer one,
\* and the newer one was passed on
C3_Witness ==
  /\ pc = "findOrCreate"
  /\ lastDate > 0
  /\ \E k \in DOMAIN clipData : created_at(clipData[k]) = lastDate
  /\ sentNow[sub] # <<>>

StrictlyAscending(s) ==
  \A a, b \in DOMAIN s : a < b => created_at(s[a]) < created_at(s[b])

Ascending(s) ==
  \A a, b \in DOMAIN s : a < b => created_at(s[a]) <= created_at(s[b])

IsPrefix(p, s) == Len(p) <= Len(s) /\ SubSeq(s, 1, Len(p)) = p

\* C4 (as claimed): the batch of getLatestClips is strictly ascending by
\* created_at, the clips are passed to sendClipToDiscord in that order, and
\* when the batch completes the persisted watermark is the clip with the
\* greatest created_at.
C4_StrictlyAscendingDelivery ==
  (pc \in {"send", "findOrCreate", "save"} \/ BatchCompleted) =>
    /\ StrictlyAscending(clips)
    /\ IsPrefix(sentNow[sub], clips)
    /\ BatchCompleted =>
         /\ sentNow[sub] = clips
         /\ db[sub] = RowOf(newestClip(clips))
         /\ \A k \in DOMAIN clips : created_at(clips[k]) <= db[sub].last_clip_created_at

\* C4 (amended): the batch holds exactly the listed clips newer than the
\* watermark, in non-decreasing order of created_at (strictly ascending
\* when no two of them share a created_at); the clips are passed to
\* sendClipToDiscord in that order; when the batch completes and sub.save
\* resolves, the persisted watermark is the last clip of the batch, whose
\* created_at is the greatest of the batch.
C4_AscendingDelivery ==
  (pc \in {"send", "findOrCreate", "save"} \/ BatchCompleted) =>
    /\ Ascending(clips)
    /\ Len(clips) = Len(filterNew(clipData, lastDate))
    /\ Range(clips) = {c \in Range(clipData) : created_at(c) > lastDate}
    /\ (\A a, b \in Range(clips) : a # b => created_at(a) # created_at(b))
          => StrictlyAscending(clips)
    /\ IsPrefix(sentNow[sub], clips)
    /\ BatchCompleted =>
         /\ sentNow[sub] = clips
         /\ db[sub] = RowOf(newestClip(clips))
         /\ \A k \in DOMAIN clips : created_at(clips[k]) <= db[sub].last_clip_created_at

\* Scenario A: watermark at the epoch, listing [c1@t1, c3@t3, c2@t2],
\* delivered as c1, c2, c3, watermark (c3, t3)
C4_Witness ==
  /\ BatchCompleted
  /\ ClipTime = <<1, 2, 3>>
  /\ wmStart[sub] = EmptyRow
  /\ clipData = <<1, 3, 2>>
  /\ sentNow[sub] = <<1, 2, 3>>
  /\ db[sub] = RowOf(3)

\* C6 (as claimed): when the processing of one subscription throws, every
\* remaining subscription that findAll listed is still processed in that
\* cycle.
C6_RemainingSubsProcessed ==
  (pc = "done" /\ err \notin {"none", "findAll"}) => i = Len(subs)

\* C7 (as claimed): a failure of Clip.findOrCreate for one clip prevents
\* neither the remaining clips of the batch from being passed to
\* sendClipToDiscord nor the watermark from being advanced in that cycle.
C7_FindOrCreateFailureContained ==
  (pc = "done" /\ err = "findOrCreate") =>
    /\ sentNow[sub] = clips
    /\ LastDateOf(db[sub]) > LastDateOf(wmStart[sub])

\* the fetchWithAuthRetry call of the last request has returned or thrown
CallEnded == pc \notin {"fetch", "refresh"} \/ (pc = "fetch" /\ retry)

\* C9 (as claimed): a call whose request is answered 401 again after the
\* refresh-and-retry ends as an error raised to the caller of
\* getLatestClips, never as an empty batch, and no third request is sent.
C9_SecondRejectionRaises ==
  /\ Len(reqs) <= 2
  /\ (reqs = <<401, 401>> /\ pc \notin {"fetch", "refresh"})
       => (pc = "done" /\ err # "none")

\* C10: a call whose first request is answered 401 and whose retry after
\* the refresh succeeds makes exactly one getAccessToken call and exactly
\* two requests, and the subscription's delivered clips, their order and
\* its watermark are the same function of the listing as in a cycle whose
\* call was answered 200 at once.
C10_RetryIsTransparent ==
  /\ (CallEnded /\ Len(reqs) >= 1 /\ reqs[1] = 401 /\ reqs[Len(reqs)] = 200)
       => (Len(reqs) = 2 /\ refreshes = 1)
  /\ (CallEnded /\ reqs = <<200>>) => refreshes = 0
  /\ (pc = "loop" /\ i >= 1 /\ call = "clips" /\ reqs \in {<<200>>, <<401, 200>>}) =>
       /\ sentNow[sub] = getLatestClips(clipData, LastDateOf(wmStart[sub]))
       /\ db[sub] = IF sentNow[sub] = <<>> THEN wmStart[sub]
                     ELSE RowOf(newestClip(sentNow[sub]))

\* a clip listing answered 401, refreshed once and retried delivered two
\* clips and advanced the watermark
C10_Witness ==
  /\ BatchCompleted
  /\ call = "clips"
  /\ reqs = <<401, 200>>
  /\ refreshes = 1
  /\ Len(sentNow[sub]) >= 2
  /\ db[sub] = RowOf(newestClip(clips))

\* C11: when a batch completed and its watermark was saved, the listing that
\* produced the batch, filtered as the next cycle filters it against the
\* saved watermark, gives an empty batch; and a subscription whose batch is
\* empty has nothing passed to sendClipToDiscord and its watermark is the
\* one the cycle started with.
C11_RerunIsEmpty ==
  /\ BatchCompleted => getLatestClips(clipData, LastDateOf(db[sub])) = <<>>
  /\ (pc = "loop" /\ i >= 1 /\ clips = <<>>) =>
       (sentNow[sub] = <<>> /\ db[sub] = wmStart[sub])

\* a later cycle was answered the listing that an earlier cycle had advanced
\* the watermark with: all its clips were passed before, the watermark is
\* the one that listing gives, and the batch came out empty
C11_Witness ==
  /\ cycle >= 2
  /\ pc = "loop" /\ i >= 1 /\ call = "clips"
  /\ Len(clipData) >= 2
  /\ Range(clipData) \subseteq sent[sub]
  /\ wmStart[sub] = RowOf(newestClip(getLatestClips(clipData, 0)))
  /\ clips = <<>>
  /\ sentNow[sub] = <<>>
  /\ db[sub] = wmStart[sub]

\* C12 (as claimed): no upstream clip of a subscribed broadcaster is left
\* behind: a clip not yet passed to sendClipToDiscord for an active
\* subscription is still newer than the persisted watermark, so that a
\* later cycle can still select it.  (By C2 and C3 a clip at or before the
\* watermark is never selected again, so a state violating this is one from
\* which the clip is never delivered.)  The clips of ClipIds exist upstream
\* throughout; a listing is one page of at most MaxList of them, in any
\* order, and two of them may share a created_at.
C12_NoClipLeftBehind ==
  \A s \in SubIds : \A c \in ClipIds :
    (active[s] /\ c \notin sent[s] \cup Range(sentNow[s]))
      => created_at(c) > LastDateOf(db[s])

\* C13: a failed push never reaches pollAll's catch.  While the batch with
\* the failed push is the current one: the clips before the failing one are
\* recorded in the Clips history; if the cycle has ended, what its catch
\* caught, if anything, is a rejected store write (C7), never the push; and
\* unless a store write rejected, every clip of the batch was attempted,
\* the watermark was advanced to the last clip of the batch (at or after
\* the last clip delivered before the failure), and the loop goes on to the
\* next subscription or, behind the last one, ends without an exception.
C13_PushFailureSwallowed ==
  failedAt # 0 =>
    /\ \A k \in 1..(failedAt - 1) : clipRows[clips[k]] >= 1
    /\ pc = "done" => err \in {"none", "findOrCreate", "save"}
    /\ (pc \in {"loop", "done"} /\ err = "none") =>
         /\ sentNow[sub] = clips
         /\ db[sub] = RowOf(newestClip(clips))
         /\ \A k \in 1..(failedAt - 1) :
              created_at(clips[k]) <= LastDateOf(db[sub])
    /\ (pc = "loop" /\ i < Len(subs)) => ENABLED NextSub
    /\ (pc = "done" /\ err = "none") => i = Len(subs)

\* Scenario D: a batch of two clips for the first subscription, the push of
\* the second one failed; both were attempted, the first is recorded, the
\* watermark is saved and the next subscription is still to come
C13_Witness ==
  /\ BatchCompleted
  /\ i = 1 /\ i < Len(subs)
  /\ Len(clips) = 2
  /\ failedAt = 2
  /\ sentNow[sub] = clips
  /\ clipRows[clips[1]] = 1
  /\ db[sub] = RowOf(clips[2])
  /\ db[sub] # wmStart[sub]

\* C14 (as claimed): once the ready handler runs, no failure ends the
\* scheduling: the handler is never left without startPolling having been
\* called or a poll cycle or timeout pending.  (In the state "stopped" the
\* ready handler has rejected before startPolling(): no step of the
\* program is enabled any more, so no further poll cycle is ever started.)
C14_SchedulingNeverAbandoned == sched # "stopped"

\* C15: when the user lookup of a subscription finds no user, getLatestClips
\* returns an empty batch and nothing is raised: no clip is passed to
\* sendClipToDiscord for that subscription, its persisted watermark is the
\* one the cycle started with, and the loop goes on to the next
\* subscription or, behind the last one, ends without an exception.
C15_NoUserEmptyBatch ==
  userId = NULL =>
    /\ pc \in {"loop", "done"}
    /\ err = "none"
    /\ clips = <<>>
    /\ sentNow[sub] = <<>>
    /\ db[sub] = wmStart[sub]
    /\ (pc = "loop" /\ i < Len(subs)) => ENABLED NextSub
    /\ pc = "done" => i = Len(subs)

\* Scenario B: the lookup for the first subscription was answered 200 with
\* no user; the second subscription is still to come
C15_Witness ==
  /\ userId = NULL
  /\ pc = "loop"
  /\ i = 1 /\ i < Len(subs)
  /\ reqs[Len(reqs)] = 200
  /\ sentNow[sub] = <<>>
  /\ ENABLED NextSub

\* C16 (as claimed): one poll cycle runs at startup and every further cycle
\* is started by a timeout of the fixed delay that has fired, so that the
\* cycles started never exceed the fired timeouts by more than the one
\* startup cycle; in particular a single cycle has run when the first
\* timeout is armed.
C16_OneCycleThenDelays == cycle <= timers + 1

\* C17: the Subscriptions rows change only in the step in which sub.save()
\* resolves; that step comes after every clip of a non-empty batch has been
\* passed to sendClipToDiscord, is the first write of that row in the cycle,
\* and changes the row of the current subscription only.  Whenever the loop
\* is back at its head the row of the current subscription has been written
\* if its batch was non-empty and completed, and not if it was empty.
C17_WatermarkWrittenOnce ==
  [][ /\ db' # db => (pc = "save" /\ pc' = "loop")
      /\ (pc = "save" /\ pc' = "loop") =>
           /\ clips # <<>>
           /\ sentNow[sub] = clips
           /\ db[sub] = wmStart[sub]
           /\ db'[sub] # db[sub]
           /\ \A s \in SubIds \ {sub} : db'[s] = db[s]
      /\ (pc' = "loop" /\ i' >= 1) =>
           (db'[subs'[i']] # wmStart'[subs'[i']] <=> clips' # <<>>)
    ]_vars

\* one cycle wrote the watermark of both active subscriptions, each once,
\* after batches of two clips
C17_Witness ==
  /\ BatchCompleted
  /\ i = 2
  /\ Len(clips) = 2 /\ sentNow[sub] = clips
  /\ Len(sentNow[subs[1]]) = 2
  /\ \A s \in {subs[1], subs[2]} :
       db[s] # wmStart[s] /\ db[s] = RowOf(newestClip(sentNow[s]))
  /\ db[3] = wmStart[3]

\* C18: the Clips history holds at most one row per clip_id; and the
\* history is never consulted before a push: whatever is recorded, the
\* clips passed to sendClipToDiscord for the current subscription are the
\* clips of its batch up to the one being processed, in order.
C18_OneRecordPerClip ==
  /\ \A c \in ClipIds : clipRows[c] <= 1
  /\ pc = "send" => sentNow[sub] = SubSeq(clips, 1, j - 1)
  /\ pc = "findOrCreate" => sentNow[sub] = SubSeq(clips, 1, j)
  /\ pc = "save" => sentNow[sub] = clips

\* a clip already recorded for the first subscription was passed again for
\* the second one, which is subscribed to the same broadcaster, and so was
\* the clip after it; the history still holds one row for each
C18_Witness ==
  /\ pc = "save"
  /\ i = 2
  /\ Len(clips) = 2
  /\ sentNow[sub] = clips
  /\ Range(clips) \subseteq Range(sentNow[subs[1]])
  /\ \A c \in Range(clips) : clipRows[c] = 1

\* C19 (as claimed, index.js): the persisted last_clip_created_at never
\* decreases, whichever pollAll execution saves: no save replaces the
\* watermark by an older one.
C19_IxWatermarkNeverDecreases ==
  [][LastDateOf(ixDb') >= LastDateOf(ixDb)]_vars

\* C20: the persisted watermark of a subscription is either unset or it is
\* the id and the created_at of one clip, and that clip was passed to
\* sendClipToDiscord for that subscription in this or an earlier cycle.
C20_WatermarkNamesSentClip ==
  \A s \in SubIds :
    \/ db[s] = EmptyRow
    \/ /\ db[s].last_clip_id \in ClipIds
       /\ db[s] = RowOf(db[s].last_clip_id)
       /\ db[s].last_clip_id \in sent[s] \cup Range(sentNow[s])

\* the watermark of a subscription names a clip passed in an earlier cycle
\* while a newer clip has been passed in this cycle and is not saved yet
C20_Witness ==
  /\ pc = "save"
  /\ db[sub] # EmptyRow
  /\ db[sub].last_clip_id \in sent[sub]
  /\ db[sub].last_clip_id \notin Range(sentNow[sub])
  /\ created_at(newestClip(sentNow[sub])) > LastDateOf(db[sub])

====
